---- MODULE Spec2Model ----
(***************************************************************************)
(* Model of rexlx/billder: the build server's request handler              *)
(* (cmd/billder/main.go, buildHandler) and the hybrid client               *)
(* (cmd/client/main.go, main) that share one HTTP response carrying        *)
(* line-oriented progress events, one switch signal and raw artifact bytes.*)
(*                                                                         *)
(* A byte string is a sequence of symbols.  Each symbol stands for a fixed *)
(* byte string: NL is the line terminator, SP one space, DATA the text     *)
(* "data:", EVT the text "event: binary_start"; every other symbol is a    *)
(* run of bytes holding neither a line terminator nor white space at its   *)
(* ends.  Lengths are counted in symbols.                                  *)
(***************************************************************************)
EXTENDS Naturals, Integers, Sequences, FiniteSets, TLC

VARIABLES
    req,        \* the HTTP request: method, X-Billder-Token header, body
    authToken,  \* os.Getenv("AUTH_TOKEN") of the server process
    flusherOK,  \* whether the ResponseWriter is an http.Flusher
    compilerOut,\* the bytes `go build` leaves at outputBinary when it succeeds
    fs,         \* the server's temp directory: what each workspace name holds
    hs,         \* the requests the server handles at the same time, one
                \* buildHandler each: position, workspace name, artifact bytes sent
    pc,         \* buildHandler's position
    payload,    \* the decoded RequestPayload (after defaults)
    status,     \* HTTP status of the response, 0 while no header is written
    stream,     \* every byte the handler has written to the response body
    ops,        \* one <<kind, length>> per successful write to the response
    calls,      \* the kind of every write the handler issued, failed ones included
    brokenAt,   \* -1 while connected; else how many body bytes the peer can get
    wsCreated,  \* os.MkdirTemp succeeded for this request
    wsExists,   \* the temporary workspace directory is on disk
    binary,     \* content of outputBinary on disk (<<>> while absent)
    statSize,   \* stat.Size() taken at line 172, -1 before
    copied,     \* bytes of the binary io.Copy has written so far
    stages,     \* pipeline stages entered, in order
    tidyFailed, \* `go mod tidy` ended with an error (the handler drops it)
    result,     \* how the handler ended
    cpc,        \* the hybrid client's position
    rd,         \* body bytes the client's bufio.Reader has pulled from the body
    buf,        \* unread bytes in the client's bufio.Reader
    filename,   \* the client's `filename`
    fileCreated,\* the client called os.Create(filename) successfully
    file,       \* bytes the client wrote to its local file
    printed,    \* number of progress messages the client printed
    sinkFrom,   \* body bytes the client consumed as lines when it left the loop
                \* through the switch branch (line 93), -1 before
    prefetched, \* what its bufio.Reader still held at that moment
    outcome     \* the client's final report

srvVars == <<pc, payload, status, stream, ops, calls, wsCreated, wsExists, binary,
             statSize, copied, stages, tidyFailed, result>>
cliVars == <<cpc, rd, buf, filename, fileCreated, file, printed, sinkFrom,
             prefetched, outcome>>
envVars == <<req, authToken, flusherOK, compilerOut, fs, hs>>
oneVars == <<req, authToken, flusherOK, compilerOut, srvVars, cliVars, brokenAt>>
vars == <<req, authToken, flusherOK, compilerOut, fs, hs, pc, payload, status, stream,
          ops, calls, brokenAt, wsCreated, wsExists, binary, statSize, copied, stages,
          tidyFailed, result, cpc, rd, buf, filename, fileCreated, file, printed, sinkFrom,
          prefetched, outcome>>

-----------------------------------------------------------------------------
(* Bounds of the model *)

\* longest compiled artifact, in symbols
MaxArtifact == 2

\* requests the server handles at the same time
NumRequests == 2

\* most symbols io.Copy moves per Write
CopyChunk == 1

-----------------------------------------------------------------------------
(* Symbols *)

NL == "\n"
SP == " "
DATA == "data:"
EVT == "event: binary_start"

Space == {SP, NL}

RECURSIVE SeqsUpTo(_, _)
SeqsUpTo(S, n) ==
    IF n = 0 THEN {<<>>}
    ELSE LET shorter == SeqsUpTo(S, n - 1)
         IN shorter \cup {Append(s, x) : s \in {t \in shorter : Len(t) = n - 1}, x \in S}

-----------------------------------------------------------------------------
(* Pure helpers: the library calls the two programs make *)

\* strings.HasPrefix(line, p) for a one-symbol prefix p
HasPrefix(line, p) == Len(line) > 0 /\ line[1] = p

\* strings.TrimPrefix(line, p)
TrimPrefix(line, p) == IF HasPrefix(line, p) THEN Tail(line) ELSE line

RECURSIVE TrimLeft(_)
TrimLeft(s) == IF s # <<>> /\ Head(s) \in Space THEN TrimLeft(Tail(s)) ELSE s

RECURSIVE TrimRight(_)
TrimRight(s) ==
    IF s # <<>> /\ s[Len(s)] \in Space THEN TrimRight(SubSeq(s, 1, Len(s) - 1)) ELSE s

\* strings.TrimSpace
TrimSpace(s) == TrimRight(TrimLeft(s))

\* index of the first line terminator of s, 0 when it has none
FirstNL(s) ==
    IF \E i \in 1..Len(s) : s[i] = NL
    THEN CHOOSE i \in 1..Len(s) : s[i] = NL /\ \A j \in 1..(i - 1) : s[j] # NL
    ELSE 0

HasNL(s) == FirstNL(s) # 0

-----------------------------------------------------------------------------
(* Inputs *)

Methods == {"POST", "GET"}
HeaderTokens == {"", "s3cret", "wrong"}
ServerTokens == {"", "s3cret"}

\* a repo_url carrying a line terminator followed by the text of a switch signal
RepoInjection == <<"r", NL, EVT, NL, DATA, SP, "f", NL>>
\* a target_arch carrying a line terminator
ArchInjection == <<"a", NL, "b">>
\* a target_os carrying a line terminator
OSInjection == <<"linux", NL>>

RepoValues == {<<>>, <<"r">>, RepoInjection}
OSValues == {<<>>, <<"linux">>, <<"windows">>, <<"darwin">>, OSInjection}
ArchValues == {<<>>, <<"arm64">>, ArchInjection}

\* what json.Decode leaves in the RequestPayload; ok = FALSE: the body does not decode
Bodies ==
    [ok : {TRUE}, repo : RepoValues, os : OSValues, arch : ArchValues]
    \cup {[ok |-> FALSE, repo |-> <<>>, os |-> <<>>, arch |-> <<>>]}

ArtifactBytes == {NL, EVT, "x"}
Artifacts == SeqsUpTo(ArtifactBytes, MaxArtifact) \ {<<>>}

NoPayload == [repo |-> <<>>, os |-> <<>>, arch |-> <<>>]

-----------------------------------------------------------------------------
(* Event Stream Encoder: the handler's writes *)

\* fmt.Fprintf(w, "data: %s\n\n", msg)
EncodeProgress(msg) == <<DATA, SP>> \o msg \o <<NL, NL>>

\* fmt.Fprintf(w, "event: binary_start\ndata: %s\n\n", name)
EncodeSwitch(name) == <<EVT, NL, DATA, SP>> \o name \o <<NL, NL>>

Connected == brokenAt = -1

\* the texts of the progress events that report a failure
FailureTexts ==
    {"Error: Invalid JSON payload",
     "Error: Unsupported OS. Only 'linux' and 'windows' supported.",
     "Error: Failed to create workspace",
     "Error: Git clone failed. Is the URL correct?",
     "Error: Repository is empty.",
     "Error: Compilation failed.",
     "Error: Could not open built artifact"}

\* what a write is: a progress event whose message is a failure text is a
\* failure event
CallKind(kind, bytes) ==
    IF kind = "progress" /\ bytes[3] \in FailureTexts THEN "failure" ELSE kind

\* One Write of `bytes` to the ResponseWriter (and Flush).  A write to a broken
\* connection fails and puts nothing on the response.
WriteResponse(kind, bytes) ==
    /\ stream' = IF Connected THEN stream \o bytes ELSE stream
    /\ ops' = IF Connected THEN Append(ops, <<kind, Len(bytes)>>) ELSE ops
    /\ calls' = Append(calls, CallKind(kind, bytes))

NoWrite == UNCHANGED <<stream, ops, calls>>

sendProgress(msg) ==
    /\ WriteResponse("progress", EncodeProgress(msg))
    /\ status' = IF status = 0 THEN 200 ELSE status

\* http.Error(w, text, code)
HttpError(text, code) ==
    /\ WriteResponse("error", <<text, NL>>)
    /\ status' = code

\* fmt.Sprintf("Starting job for %s [%s/%s]", RepoURL, TargetOS, TargetArch)
StartingJobMsg(p) ==
    <<"Starting job for", SP>> \o p.repo \o <<SP, "[">> \o p.os \o <<"/">> \o p.arch \o <<"]">>

MiB == 1048576

\* fmt.Sprintf("%.2f", float64(size)/1024/1024): hundredths of a MiB, rounded
FormatMB(size) ==
    LET h == (size * 100 + MiB \div 2) \div MiB
    IN <<ToString(h \div 100), ".", ToString((h % 100) \div 10), ToString(h % 10)>>

\* fmt.Sprintf("Build Successful! Artifact size: %.2f MB", fileSizeMB)
SuccessMsg(size) == <<"Build Successful! Artifact size:", SP>> \o FormatMB(size) \o <<SP, "MB">>

\* filepath.Base(outputBinary)
OutputBase(p) == IF p.os = <<"windows">> THEN <<"app", ".exe">> ELSE <<"app">>

-----------------------------------------------------------------------------
(* Initial state: a request arrives at a fresh handler; the client has sent it *)

\* an ordinary request body
PlainBody == [ok |-> TRUE, repo |-> <<"r">>, os |-> <<"linux">>, arch |-> <<"arm64">>]
BadBody == [ok |-> FALSE, repo |-> <<>>, os |-> <<>>, arch |-> <<>>]

\* The requests and surroundings the model starts from.  Three families, each
\* varying one part of the input in full while the others stay ordinary:
\* the method/token/flusher gate, the payload fields, the artifact bytes.
GateScenarios ==
    [req : [method : Methods, token : HeaderTokens, body : {PlainBody, BadBody}],
     authToken : ServerTokens, flusherOK : BOOLEAN, compilerOut : {<<"x">>}]

PayloadScenarios ==
    [req : [method : {"POST"}, token : {""}, body : Bodies],
     authToken : {""}, flusherOK : {TRUE}, compilerOut : {<<"x">>}]

ArtifactScenarios ==
    [req : [method : {"POST"}, token : {""},
            body : {PlainBody}],
     authToken : {""}, flusherOK : {TRUE}, compilerOut : Artifacts]

Scenarios == GateScenarios \cup PayloadScenarios \cup ArtifactScenarios

Requests == 1..NumRequests

\* the names os.MkdirTemp("", "billder-*") can give
TempDirs == 1..NumRequests

\* a name under which the temp directory holds nothing
Absent == [cloned |-> -1, built |-> -1]

Init ==
    /\ \E s \in Scenarios :
         /\ req = s.req
         /\ authToken = s.authToken
         /\ flusherOK = s.flusherOK
         /\ compilerOut = s.compilerOut
    /\ fs = [d \in TempDirs |-> Absent]
    /\ hs = [i \in Requests |-> [pc |-> "mkdir", dir |-> 0, sent |-> <<>>]]
    /\ pc = "method"
    /\ payload = NoPayload
    /\ status = 0
    /\ stream = <<>>
    /\ ops = <<>>
    /\ calls = <<>>
    /\ brokenAt = -1
    /\ wsCreated = FALSE
    /\ wsExists = FALSE
    /\ binary = <<>>
    /\ statSize = -1
    /\ copied = 0
    /\ stages = <<>>
    /\ tidyFailed = FALSE
    /\ result = "running"
    /\ cpc = "connect"
    /\ rd = 0
    /\ buf = <<>>
    /\ filename = <<>>
    /\ fileCreated = FALSE
    /\ file = <<>>
    /\ printed = 0
    /\ sinkFrom = -1
    /\ prefetched = <<>>
    /\ outcome = "running"

-----------------------------------------------------------------------------
(* buildHandler *)

\* RemoveAll never deferred: the workspace is left behind
RemoveAllMissing == UNCHANGED <<wsExists, binary>>

\* defer os.RemoveAll(tmpDir): runs on every exit after line 117
RemoveAll == wsExists' = FALSE /\ binary' = <<>>

\* a return statement after the workspace exists (its deferred calls run)
ReturnWith(r) ==
    /\ pc' = "returned"
    /\ result' = r
    /\ RemoveAll

\* a return statement before any workspace exists
RejectWith(r) ==
    /\ pc' = "returned"
    /\ result' = r
    /\ UNCHANGED <<wsExists, binary>>

\* CheckMethod without its return: the error is written and the handler goes on
CheckMethodNoReturn ==
    /\ pc = "method"
    /\ IF req.method # "POST"
       THEN HttpError("Method Not Allowed", 405)
       ELSE NoWrite /\ UNCHANGED status
    /\ pc' = "auth"
    /\ UNCHANGED <<result, wsExists, binary>>
    /\ UNCHANGED <<payload, wsCreated, statSize, copied, stages, brokenAt>>
    /\ UNCHANGED <<envVars, cliVars, tidyFailed>>

\* 1. Method Check
CheckMethod ==
    /\ pc = "method"
    /\ IF req.method # "POST"
       THEN HttpError("Method Not Allowed", 405) /\ RejectWith("bad_method")
       ELSE /\ pc' = "auth"
            /\ NoWrite
            /\ UNCHANGED <<status, result, wsExists, binary>>
    /\ UNCHANGED <<payload, wsCreated, statSize, copied, stages, brokenAt>>
    /\ UNCHANGED <<envVars, cliVars, tidyFailed>>

\* CheckAuth letting a request without the header through
CheckAuthEmptyHeaderPasses ==
    /\ pc = "auth"
    /\ IF authToken # "" /\ req.token # "" /\ req.token # authToken
       THEN HttpError("Unauthorized", 401) /\ RejectWith("unauthorized")
       ELSE /\ pc' = "flusher"
            /\ NoWrite
            /\ UNCHANGED <<status, result, wsExists, binary>>
    /\ UNCHANGED <<payload, wsCreated, statSize, copied, stages, brokenAt>>
    /\ UNCHANGED <<envVars, cliVars, tidyFailed>>

\* 2. Auth Check
CheckAuth ==
    /\ pc = "auth"
    /\ IF authToken # "" /\ req.token # authToken
       THEN HttpError("Unauthorized", 401) /\ RejectWith("unauthorized")
       ELSE /\ pc' = "flusher"
            /\ NoWrite
            /\ UNCHANGED <<status, result, wsExists, binary>>
    /\ UNCHANGED <<payload, wsCreated, statSize, copied, stages, brokenAt>>
    /\ UNCHANGED <<envVars, cliVars, tidyFailed>>

\* 3. Setup Streaming Headers
CheckFlusher ==
    /\ pc = "flusher"
    /\ IF ~flusherOK
       THEN HttpError("Streaming unsupported", 500) /\ RejectWith("no_flusher")
       ELSE /\ pc' = "parse"
            /\ NoWrite
            /\ UNCHANGED <<status, result, wsExists, binary>>
    /\ UNCHANGED <<payload, wsCreated, statSize, copied, stages, brokenAt>>
    /\ UNCHANGED <<envVars, cliVars, tidyFailed>>

\* payload.TargetArch defaults to "amd64"
WithDefaults(b) ==
    [repo |-> b.repo, os |-> b.os, arch |-> IF b.arch = <<>> THEN <<"amd64">> ELSE b.arch]

\* 4. Parse Body, then announce the job
ParseBody ==
    /\ pc = "parse"
    /\ IF ~req.body.ok
       THEN /\ sendProgress(<<"Error: Invalid JSON payload">>)
            /\ RejectWith("invalid_json")
            /\ UNCHANGED payload
       ELSE /\ payload' = WithDefaults(req.body)
            /\ sendProgress(StartingJobMsg(payload'))
            /\ pc' = "env"
            /\ UNCHANGED <<result, wsExists, binary>>
    /\ UNCHANGED <<wsCreated, statSize, copied, stages, brokenAt>>
    /\ UNCHANGED <<envVars, cliVars, tidyFailed>>

SupportedOS == {<<"windows">>, <<"linux">>}

\* 5. Determine Compiler Environment
SelectEnv ==
    /\ pc = "env"
    /\ IF payload.os \in SupportedOS
       THEN /\ pc' = "mkdir"
            /\ NoWrite
            /\ UNCHANGED <<status, result, wsExists, binary>>
       ELSE /\ sendProgress(<<"Error: Unsupported OS. Only 'linux' and 'windows' supported.">>)
            /\ RejectWith("unsupported_os")
    /\ UNCHANGED <<payload, wsCreated, statSize, copied, stages, brokenAt>>
    /\ UNCHANGED <<envVars, cliVars, tidyFailed>>

\* 6. Create Temp Workspace, then announce step 1
CreateWorkspace ==
    /\ pc = "mkdir"
    /\ \E mkdirOK \in BOOLEAN :
         IF mkdirOK
         THEN /\ wsCreated' = TRUE
              /\ wsExists' = TRUE
              /\ sendProgress(<<"Step 1/3: Cloning repository...">>)
              /\ pc' = "clone"
              /\ UNCHANGED <<result, binary>>
         ELSE /\ sendProgress(<<"Error: Failed to create workspace">>)
              /\ RejectWith("mkdir_failed")
              /\ UNCHANGED wsCreated
    /\ UNCHANGED <<payload, statSize, copied, stages, brokenAt>>
    /\ UNCHANGED <<envVars, cliVars, tidyFailed>>

\* GitClone with a retry: a failed clone is attempted again
GitCloneRetries ==
    /\ pc = "clone"
    /\ stages' = Append(stages, "Cloning")
    /\ \E cloned \in {"failed", "empty", "ok"} :
         CASE cloned = "failed" ->
                /\ NoWrite
                /\ UNCHANGED <<pc, status, result, wsExists, binary>>
           [] cloned = "empty" ->
                /\ sendProgress(<<"Error: Repository is empty.">>)
                /\ ReturnWith("repo_empty")
           [] cloned = "ok" ->
                /\ sendProgress(<<"Step 2/3: Resolving dependencies...">>)
                /\ pc' = "tidy"
                /\ UNCHANGED <<result, wsExists, binary>>
    /\ UNCHANGED <<payload, wsCreated, statSize, copied, brokenAt>>
    /\ UNCHANGED <<envVars, cliVars, tidyFailed>>

\* 7. Git Clone, the emptiness check, then announce step 2
GitClone ==
    /\ pc = "clone"
    /\ stages' = Append(stages, "Cloning")
    /\ \E cloned \in {"failed", "empty", "ok"} :
         CASE cloned = "failed" ->
                /\ sendProgress(<<"Error: Git clone failed. Is the URL correct?">>)
                /\ ReturnWith("clone_failed")
           [] cloned = "empty" ->
                /\ sendProgress(<<"Error: Repository is empty.">>)
                /\ ReturnWith("repo_empty")
           [] cloned = "ok" ->
                /\ sendProgress(<<"Step 2/3: Resolving dependencies...">>)
                /\ pc' = "tidy"
                /\ UNCHANGED <<result, wsExists, binary>>
    /\ UNCHANGED <<payload, wsCreated, statSize, copied, brokenAt>>
    /\ UNCHANGED <<envVars, cliVars, tidyFailed>>

\* GoModTidy as it would be if its error were handled like that of the other
\* stages: reported, and the handler returns
GoModTidyFailureAborts ==
    /\ pc = "tidy"
    /\ stages' = Append(stages, "ResolvingDeps")
    /\ \E tidyOK \in BOOLEAN :
         /\ tidyFailed' = ~tidyOK
         /\ IF tidyOK
            THEN /\ sendProgress(<<"Step 3/3: Compiling...">>)
                 /\ pc' = "build"
                 /\ UNCHANGED <<result, wsExists, binary>>
            ELSE /\ sendProgress(<<"Error: Dependency resolution failed.">>)
                 /\ ReturnWith("tidy_failed")
    /\ UNCHANGED <<payload, wsCreated, statSize, copied, brokenAt>>
    /\ UNCHANGED <<envVars, cliVars>>

\* 8. Go Mod Tidy (its error is ignored), then announce step 3
GoModTidy ==
    /\ pc = "tidy"
    /\ stages' = Append(stages, "ResolvingDeps")
    /\ \E tidyOK \in BOOLEAN :
         /\ tidyFailed' = ~tidyOK
         /\ sendProgress(<<"Step 3/3: Compiling...">>)
         /\ pc' = "build"
    /\ UNCHANGED <<payload, wsCreated, wsExists, binary, statSize, copied, result, brokenAt>>
    /\ UNCHANGED <<envVars, cliVars>>

\* GoBuild without the return of line 168: the failure is reported and the
\* handler goes on to the handover
GoBuildFailureContinues ==
    /\ pc = "build"
    /\ stages' = Append(stages, "Compiling")
    /\ \E buildOK \in BOOLEAN :
         /\ IF buildOK
            THEN binary' = compilerOut /\ NoWrite /\ UNCHANGED status
            ELSE sendProgress(<<"Error: Compilation failed.">>) /\ UNCHANGED binary
         /\ pc' = "stat"
         /\ UNCHANGED <<result, wsExists>>
    /\ UNCHANGED <<payload, wsCreated, statSize, copied, brokenAt>>
    /\ UNCHANGED <<envVars, cliVars, tidyFailed>>

\* 9. Go Build
GoBuild ==
    /\ pc = "build"
    /\ stages' = Append(stages, "Compiling")
    /\ \E buildOK \in BOOLEAN :
         IF buildOK
         THEN /\ binary' = compilerOut
              /\ pc' = "stat"
              /\ NoWrite
              /\ UNCHANGED <<status, result, wsExists>>
         ELSE /\ sendProgress(<<"Error: Compilation failed.">>)
              /\ ReturnWith("compile_failed")
    /\ UNCHANGED <<payload, wsCreated, statSize, copied, brokenAt>>
    /\ UNCHANGED <<envVars, cliVars, tidyFailed>>

\* 10. stat of the produced binary; a nil stat makes stat.Size() panic, the
\* deferred calls run and net/http aborts the connection
StatBinary ==
    /\ pc = "stat"
    /\ \E statOK \in BOOLEAN :
         IF statOK
         THEN /\ statSize' = Len(binary)
              /\ sendProgress(SuccessMsg(statSize'))
              /\ pc' = "open"
              /\ UNCHANGED <<result, wsExists, binary, brokenAt>>
         ELSE /\ ReturnWith("panicked")
              /\ brokenAt' = IF Connected THEN Len(stream) ELSE brokenAt
              /\ NoWrite
              /\ UNCHANGED <<status, statSize>>
    /\ UNCHANGED <<payload, wsCreated, copied, stages>>
    /\ UNCHANGED <<envVars, cliVars, tidyFailed>>

\* emitSwitch followed by the removal of the workspace: the cleanup runs as
\* soon as the binary is open, before its bytes are copied
emitSwitchThenRemove ==
    /\ WriteResponse("switch", EncodeSwitch(OutputBase(payload)))
    /\ pc' = "copy"
    /\ RemoveAll
    /\ UNCHANGED <<status, result>>

\* the switch signal, written once the binary is open
emitSwitch ==
    /\ WriteResponse("switch", EncodeSwitch(OutputBase(payload)))
    /\ pc' = "copy"
    /\ UNCHANGED <<status, result, wsExists, binary>>

\* os.Open(outputBinary), then the switch signal
OpenBinary ==
    /\ pc = "open"
    /\ \E openOK \in BOOLEAN :
         IF openOK
         THEN emitSwitch
         ELSE /\ sendProgress(<<"Error: Could not open built artifact">>)
              /\ ReturnWith("open_failed")
    /\ UNCHANGED <<payload, wsCreated, statSize, copied, stages, brokenAt>>
    /\ UNCHANGED <<envVars, cliVars, tidyFailed>>

Min(a, b) == IF a < b THEN a ELSE b

\* NextChunk reading at the start of the file every time (the offset not advanced)
NextChunkFromStart == SubSeq(binary, 1, Min(Len(binary), CopyChunk))

\* the next chunk io.Copy reads from the open binary
NextChunk == SubSeq(binary, copied + 1, Min(Len(binary), copied + CopyChunk))

\* StreamArtifact with a closing event written after the last artifact byte
StreamArtifactThenClose ==
    /\ pc = "copy"
    /\ IF copied = Len(binary)
       THEN /\ ReturnWith("succeeded")
            /\ sendProgress(<<"close">>)
            /\ UNCHANGED copied
       ELSE IF ~Connected
       THEN /\ ReturnWith("stream_error")
            /\ NoWrite
            /\ UNCHANGED <<copied, status>>
       ELSE /\ WriteResponse("raw", NextChunk)
            /\ copied' = copied + Len(NextChunk)
            /\ UNCHANGED <<pc, result, wsExists, binary, status>>
    /\ UNCHANGED <<payload, wsCreated, statSize, stages, brokenAt>>
    /\ UNCHANGED <<envVars, cliVars, tidyFailed>>

\* io.Copy(w, f): one chunk per step; ends at EOF or at the first write error
StreamArtifact ==
    /\ pc = "copy"
    /\ IF copied = Len(binary)
       THEN /\ ReturnWith("succeeded")
            /\ NoWrite
            /\ UNCHANGED copied
       ELSE IF ~Connected
       THEN /\ ReturnWith("stream_error")
            /\ NoWrite
            /\ UNCHANGED copied
       ELSE /\ WriteResponse("raw", NextChunk)
            /\ copied' = copied + Len(NextChunk)
            /\ UNCHANGED <<pc, result, wsExists, binary>>
    /\ UNCHANGED <<payload, status, wsCreated, statSize, stages, brokenAt>>
    /\ UNCHANGED <<envVars, cliVars, tidyFailed>>

Handler ==
    \/ CheckMethod
    \/ CheckAuth
    \/ CheckFlusher
    \/ ParseBody
    \/ SelectEnv
    \/ CreateWorkspace
    \/ GitClone
    \/ GoModTidy
    \/ GoBuild
    \/ StatBinary
    \/ OpenBinary
    \/ StreamArtifact

-----------------------------------------------------------------------------
(* The connection *)

\* body bytes the client can still obtain
Avail == IF Connected THEN Len(stream) ELSE brokenAt

\* the next Read of the body returns an error: EOF after a complete response,
\* or the connection's error once it is broken
StreamOver == rd = Avail /\ (~Connected \/ pc = "returned")

CleanEOF == Connected /\ pc = "returned"

ClientActive == cpc \notin {"done", "exited"}

\* the peer goes away (the client process ending closes the connection too) or
\* the network breaks, while either side still uses the connection: the bytes
\* in flight (written, not yet read by the client) are either all still
\* delivered or all lost
Disconnect ==
    /\ Connected
    /\ ClientActive \/ pc # "returned"
    /\ \E n \in {rd, Len(stream)} : brokenAt' = n
    /\ UNCHANGED <<envVars, srvVars, cliVars>>

-----------------------------------------------------------------------------
(* The hybrid client *)

\* client.Do returned a response: the status line decides
ClientConnect ==
    /\ cpc = "connect"
    /\ status # 0 /\ Len(stream) > 0
    /\ IF status # 200
       THEN cpc' = "exited" /\ outcome' = "server_error"
       ELSE cpc' = "loop" /\ UNCHANGED outcome
    /\ UNCHANGED <<rd, buf, filename, fileCreated, file, printed, sinkFrom, prefetched>>
    /\ UNCHANGED <<envVars, srvVars, brokenAt>>

\* client.Do returned an error
ClientConnFail ==
    /\ cpc = "connect"
    /\ ~Connected /\ Len(stream) = 0
    /\ cpc' = "exited"
    /\ outcome' = "connection_failed"
    /\ UNCHANGED <<rd, buf, filename, fileCreated, file, printed, sinkFrom, prefetched>>
    /\ UNCHANGED <<envVars, srvVars, brokenAt>>

\* ReadBytes / ReadString found no terminator in the buffer: bufio.Reader fills
\* it with one Read of the body, which returns any non-empty part of what has
\* arrived
ClientFill ==
    /\ cpc \in {"loop", "dataLine", "sepLine"}
    /\ ~HasNL(buf)
    /\ rd < Avail
    /\ \E k \in 1..(Avail - rd) :
         /\ buf' = buf \o SubSeq(stream, rd + 1, rd + k)
         /\ rd' = rd + k
    /\ UNCHANGED <<cpc, filename, fileCreated, file, printed, sinkFrom, prefetched, outcome>>
    /\ UNCHANGED <<envVars, srvVars, brokenAt>>

\* what ReadBytes('\n') / ReadString('\n') returns from buffer b: the first line
\* with its terminator, or all of b when the stream ended before a terminator
LineOf(b) == IF HasNL(b) THEN SubSeq(b, 1, FirstNL(b)) ELSE b
RestOf(b) == IF HasNL(b) THEN SubSeq(b, FirstNL(b) + 1, Len(b)) ELSE <<>>

\* the read can return: a whole line is buffered, or the stream is over
LineReady == HasNL(buf) \/ StreamOver

\* one pass of the loop at lines 74-103
ClientReadLine ==
    /\ cpc = "loop"
    /\ LineReady
    /\ buf' = RestOf(buf)
    /\ IF ~HasNL(buf)
       THEN cpc' = "afterLoop" /\ UNCHANGED printed
       ELSE IF HasPrefix(LineOf(buf), EVT)
       THEN cpc' = "dataLine" /\ UNCHANGED printed
       ELSE /\ cpc' = "loop"
            /\ printed' = IF /\ HasPrefix(LineOf(buf), DATA)
                             /\ TrimSpace(TrimPrefix(LineOf(buf), DATA)) # <<>>
                          THEN printed + 1 ELSE printed
    /\ UNCHANGED <<rd, filename, fileCreated, file, sinkFrom, prefetched, outcome>>
    /\ UNCHANGED <<envVars, srvVars, brokenAt>>

\* lines 86-87: the line after the marker names the artifact
ClientDataLine ==
    /\ cpc = "dataLine"
    /\ LineReady
    /\ filename' = TrimSpace(TrimPrefix(LineOf(buf), DATA))
    /\ buf' = RestOf(buf)
    /\ cpc' = "sepLine"
    /\ UNCHANGED <<rd, fileCreated, file, printed, sinkFrom, prefetched, outcome>>
    /\ UNCHANGED <<envVars, srvVars, brokenAt>>

\* lines 90-93: one more line is consumed and the loop is left
ClientSepLine ==
    /\ cpc = "sepLine"
    /\ LineReady
    /\ buf' = RestOf(buf)
    /\ cpc' = "afterLoop"
    /\ sinkFrom' = rd - Len(buf')
    /\ prefetched' = buf'
    /\ UNCHANGED <<rd, filename, fileCreated, file, printed, outcome>>
    /\ UNCHANGED <<envVars, srvVars, brokenAt>>

\* ClientAfterLoop without the test of line 108: the file is created whether or
\* not a name was received
ClientAfterLoopNoNameCheck ==
    /\ cpc = "afterLoop"
    /\ \E createOK \in BOOLEAN :
         IF createOK
         THEN cpc' = "sink" /\ fileCreated' = TRUE /\ UNCHANGED outcome
         ELSE cpc' = "exited" /\ outcome' = "create_failed" /\ UNCHANGED fileCreated
    /\ UNCHANGED <<rd, buf, filename, file, printed, sinkFrom, prefetched>>
    /\ UNCHANGED <<envVars, srvVars, brokenAt>>

\* lines 108-116 and 126-128
ClientAfterLoop ==
    /\ cpc = "afterLoop"
    /\ IF filename # <<>>
       THEN \E createOK \in BOOLEAN :
              IF createOK
              THEN cpc' = "sink" /\ fileCreated' = TRUE /\ UNCHANGED outcome
              ELSE cpc' = "exited" /\ outcome' = "create_failed" /\ UNCHANGED fileCreated
       ELSE cpc' = "done" /\ outcome' = "no_binary" /\ UNCHANGED fileCreated
    /\ UNCHANGED <<rd, buf, filename, file, printed, sinkFrom, prefetched>>
    /\ UNCHANGED <<envVars, srvVars, brokenAt>>

\* ClientWriteBuf as it would be if the body were copied directly and the
\* reader's buffered bytes were dropped
ClientWriteBufDropped ==
    /\ cpc = "sink"
    /\ buf # <<>>
    /\ buf' = <<>>
    /\ UNCHANGED <<cpc, rd, filename, fileCreated, file, printed, sinkFrom, prefetched, outcome>>
    /\ UNCHANGED <<envVars, srvVars, brokenAt>>

\* reader.WriteTo(outFile): the buffered bytes go to the file first
ClientWriteBuf ==
    /\ cpc = "sink"
    /\ buf # <<>>
    /\ file' = file \o buf
    /\ buf' = <<>>
    /\ UNCHANGED <<cpc, rd, filename, fileCreated, printed, sinkFrom, prefetched, outcome>>
    /\ UNCHANGED <<envVars, srvVars, brokenAt>>

\* reader.WriteTo, after the buffer: each Read of the body goes to the file
ClientSinkCopy ==
    /\ cpc = "sink"
    /\ buf = <<>>
    /\ rd < Avail
    /\ \E k \in 1..(Avail - rd) :
         /\ file' = file \o SubSeq(stream, rd + 1, rd + k)
         /\ rd' = rd + k
    /\ UNCHANGED <<cpc, buf, filename, fileCreated, printed, sinkFrom, prefetched, outcome>>
    /\ UNCHANGED <<envVars, srvVars, brokenAt>>

\* ClientSinkEnd with the error of WriteTo dropped: success whatever happened
ClientSinkEndIgnoresError ==
    /\ cpc = "sink"
    /\ buf = <<>>
    /\ StreamOver
    /\ cpc' = "done"
    /\ outcome' = "success"
    /\ UNCHANGED <<rd, buf, filename, fileCreated, file, printed, sinkFrom, prefetched>>
    /\ UNCHANGED <<envVars, srvVars, brokenAt>>

\* reader.WriteTo returns: nil at EOF, the read error otherwise
ClientSinkEnd ==
    /\ cpc = "sink"
    /\ buf = <<>>
    /\ StreamOver
    /\ cpc' = "done"
    /\ outcome' = IF CleanEOF THEN "success" ELSE "interrupted"
    /\ UNCHANGED <<rd, buf, filename, fileCreated, file, printed, sinkFrom, prefetched>>
    /\ UNCHANGED <<envVars, srvVars, brokenAt>>

Client ==
    \/ ClientConnect
    \/ ClientConnFail
    \/ ClientFill
    \/ ClientReadLine
    \/ ClientDataLine
    \/ ClientSepLine
    \/ ClientAfterLoop
    \/ ClientWriteBuf
    \/ ClientSinkCopy
    \/ ClientSinkEnd

-----------------------------------------------------------------------------

Next == Handler \/ Client \/ Disconnect

Spec == Init /\ [][Next]_vars

\* The handler runs on its own goroutine and every external operation it calls
\* returns: it keeps taking steps until it has returned.
FairSpec == Spec /\ WF_vars(Handler)

-----------------------------------------------------------------------------
(* Several requests at once.  net/http runs buildHandler on one goroutine per *)
(* request; the handlers share the process's temp directory and nothing else. *)
(* Each handler is followed through the steps that touch the temp directory;  *)
(* the bytes request i's compiler produces are written i.                     *)

\* ConcMkdirTemp as it would be with one fixed workspace name for all requests
\* (os.MkdirAll of a constant path)
ConcMkdirFixedName(i) ==
    /\ hs[i].pc = "mkdir"
    /\ fs' = [fs EXCEPT ![1] = IF fs[1] = Absent THEN [cloned |-> 0, built |-> 0] ELSE fs[1]]
    /\ hs' = [hs EXCEPT ![i].pc = "clone", ![i].dir = 1]
    /\ UNCHANGED oneVars

\* lines 112-117: os.MkdirTemp creates a directory under a name not in use
ConcMkdirTemp(i) ==
    /\ hs[i].pc = "mkdir"
    /\ \E d \in TempDirs :
         /\ fs[d] = Absent
         /\ fs' = [fs EXCEPT ![d] = [cloned |-> 0, built |-> 0]]
         /\ hs' = [hs EXCEPT ![i].pc = "clone", ![i].dir = d]
    /\ UNCHANGED oneVars

\* lines 121-133: git clone writes the sources to tmpDir/src
ConcClone(i) ==
    /\ hs[i].pc = "clone"
    /\ \E cloned \in BOOLEAN :
         IF cloned
         THEN /\ fs' = [fs EXCEPT ![hs[i].dir] =
                         [cloned |-> i, built |-> IF @ = Absent THEN 0 ELSE @.built]]
              /\ hs' = [hs EXCEPT ![i].pc = "build"]
         ELSE /\ hs' = [hs EXCEPT ![i].pc = "cleanup"]
              /\ UNCHANGED fs
    /\ UNCHANGED oneVars

\* lines 146-169: go build, run in tmpDir/src, writes tmpDir/app
ConcBuild(i) ==
    /\ hs[i].pc = "build"
    /\ \E buildOK \in BOOLEAN :
         IF buildOK /\ fs[hs[i].dir] # Absent
         THEN /\ fs' = [fs EXCEPT ![hs[i].dir].built = fs[hs[i].dir].cloned]
              /\ hs' = [hs EXCEPT ![i].pc = "copy"]
         ELSE /\ hs' = [hs EXCEPT ![i].pc = "cleanup"]
              /\ UNCHANGED fs
    /\ UNCHANGED oneVars

\* lines 178-193: os.Open(tmpDir/app) and io.Copy to this request's response
ConcStream(i) ==
    /\ hs[i].pc = "copy"
    /\ hs' = [hs EXCEPT ![i].pc = "cleanup",
                        ![i].sent = IF fs[hs[i].dir].built > 0
                                    THEN <<fs[hs[i].dir].built>> ELSE <<>>]
    /\ UNCHANGED fs
    /\ UNCHANGED oneVars

\* line 117, at the return: os.RemoveAll(tmpDir) removes what is under the name
ConcRemoveAll(i) ==
    /\ hs[i].pc = "cleanup"
    /\ fs' = [fs EXCEPT ![hs[i].dir] = Absent]
    /\ hs' = [hs EXCEPT ![i].pc = "returned"]
    /\ UNCHANGED oneVars

ConcNext ==
    \E i \in Requests :
        \/ ConcMkdirTemp(i)
        \/ ConcClone(i)
        \/ ConcBuild(i)
        \/ ConcStream(i)
        \/ ConcRemoveAll(i)

\* every request is an ordinary one
ConcInit ==
    /\ Init
    /\ req = [method |-> "POST", token |-> "", body |-> PlainBody]
    /\ authToken = "" /\ flusherOK /\ compilerOut = <<"x">>

ConcSpec == ConcInit /\ [][ConcNext]_vars

-----------------------------------------------------------------------------
(* The structure of the response, read off the handler's writes *)

Kind(i) == ops[i][1]

SwitchOps == {i \in DOMAIN ops : Kind(i) = "switch"}

RECURSIVE OpEnd(_)
\* offset in `stream` of the last byte of write i
OpEnd(i) == IF i = 0 THEN 0 ELSE OpEnd(i - 1) + ops[i][2]

OpBytes(i) == SubSeq(stream, OpEnd(i - 1) + 1, OpEnd(i))

\* the bytes written after the (first) switch signal's blank line
AfterSwitch ==
    LET i == CHOOSE j \in SwitchOps : \A k \in SwitchOps : j <= k
    IN SubSeq(stream, OpEnd(i) + 1, Len(stream))

IsPrefix(s, t) == Len(s) <= Len(t) /\ s = SubSeq(t, 1, Len(s))

-----------------------------------------------------------------------------
(* Claims *)

\* C1: in every response at most one switch signal is written, and every write
\* that follows it is a write of raw artifact bytes: no progress event comes
\* after the switch signal.
OneSwitchThenRawOnly ==
    /\ Cardinality(SwitchOps) <= 1
    /\ \A i, j \in DOMAIN ops : (i < j /\ Kind(i) = "switch") => Kind(j) = "raw"

\* C1 witness: a finished response whose switch signal is followed by raw writes
SwitchFollowedByRaw ==
    /\ pc = "returned"
    /\ \E i \in SwitchOps : i < Len(ops)


FailedInPipeline == result \in {"clone_failed", "repo_empty", "compile_failed"}

\* C2 (as claimed): for every request that fails during clone or compile, the
\* response holds no switch signal and the hybrid client never reaches the
\* artifact sink: it creates no local file and, when it finishes, reports that
\* no binary was received; this for every repo_url, target_os and target_arch.
FailedBuildNeverReachesSink ==
    FailedInPipeline =>
        /\ SwitchOps = {}
        /\ ~fileCreated
        /\ cpc # "sink"
        /\ cpc = "done" => outcome = "no_binary"

\* the handler got as far as the handover: clone and compile succeeded and the
\* binary was opened
HandedOver == pc = "returned" /\ result \in {"succeeded", "stream_error"}

\* exactly one switch signal, after the progress events and before the raw bytes
SwitchIsLastStructured ==
    /\ Cardinality(SwitchOps) = 1
    /\ \A i \in SwitchOps :
         /\ \A j \in 1..(i - 1) : Kind(j) = "progress"
         /\ \A j \in (i + 1)..Len(ops) : Kind(j) = "raw"

\* C3 (as claimed): for every request whose clone and compile succeed and whose
\* binary can be opened, the finished response holds exactly one switch signal,
\* it is the last structured event, and the bytes after its blank line are
\* exactly the artifact, as many as stat reported.
SucceededStreamIsWhole ==
    HandedOver =>
        /\ SwitchIsLastStructured
        /\ AfterSwitch = compilerOut
        /\ Len(AfterSwitch) = statSize

\* C3 (amended): the same when io.Copy ends without a write error; when a write
\* to a disconnected peer fails, the response holds at most one switch signal,
\* still the last structured event, and the bytes after it are a proper prefix
\* of the artifact.
SucceededStreamIsWholeUnlessWriteFails ==
    /\ (pc = "returned" /\ result = "succeeded") =>
          /\ SwitchIsLastStructured
          /\ AfterSwitch = compilerOut
          /\ Len(AfterSwitch) = statSize
    /\ (pc = "returned" /\ result = "stream_error") =>
          /\ ~Connected
          /\ Cardinality(SwitchOps) <= 1
          /\ SwitchOps # {} =>
                /\ SwitchIsLastStructured
                /\ IsPrefix(AfterSwitch, compilerOut)
                /\ AfterSwitch # compilerOut

\* C3 witness: a whole artifact of several bytes, the first a line terminator,
\* was streamed after the switch signal
WholeArtifactStreamed ==
    /\ pc = "returned" /\ result = "succeeded"
    /\ SwitchOps # {}
    /\ Len(AfterSwitch) > 1
    /\ AfterSwitch[1] = NL

\* C6 (as claimed): every progress event on the wire is one "data:" line and one
\* blank line: its bytes hold no line terminator before the closing two, for
\* every message, those built from repo_url, target_os and target_arch included.
ProgressEventsAreOneLine ==
    \A i \in DOMAIN ops :
        Kind(i) = "progress" =>
            LET b == OpBytes(i)
            IN /\ HasPrefix(b, DATA)
               /\ b[Len(b) - 1] = NL /\ b[Len(b)] = NL
               /\ \A k \in 1..(Len(b) - 2) : b[k] # NL


\* what the server streamed as artifact bytes
RawWritten == IF SwitchOps = {} THEN <<>> ELSE AfterSwitch

\* C4 (as claimed): when the connection is not broken, whatever the artifact
\* bytes, the bytes the hybrid client wrote to its local file are the bytes of
\* the binary the server streamed: same content, order and length.
RoundTripIdentical ==
    (Connected /\ fileCreated /\ cpc = "done") => file = RawWritten

\* C5: from the moment the client leaves its line loop through the switch
\* branch with N bytes pre-fetched in its reader, the file it writes is those N
\* bytes, unaltered and in order, followed by the bytes of the connection that
\* come after them: at every moment the file plus what the reader still holds
\* is exactly the part of the body read past the consumed lines, and at the end
\* the file is all of the body past them; nothing is dropped or written twice.
HandoffLossless ==
    (sinkFrom >= 0 /\ fileCreated) =>
        /\ prefetched = SubSeq(stream, sinkFrom + 1, sinkFrom + Len(prefetched))
        /\ file \o buf = SubSeq(stream, sinkFrom + 1, rd)
        /\ buf # <<>> => (file = <<>> /\ buf = prefetched)
        /\ buf = <<>> => IsPrefix(prefetched, file)
        /\ cpc = "done" =>
              file = prefetched \o SubSeq(stream, sinkFrom + Len(prefetched) + 1, Avail)

\* C5 witness: a finished download whose first byte, a line terminator, was
\* pre-fetched by the line reader and whose later bytes came from the connection
PrefetchedThenRest ==
    /\ cpc = "done" /\ outcome = "success"
    /\ Len(prefetched) > 0
    /\ prefetched[1] = NL
    /\ Len(file) > Len(prefetched)

TokenMismatch == authToken # "" /\ req.token # authToken

ProgressOps == {i \in DOMAIN ops : Kind(i) = "progress"}

NothingStarted == ProgressOps = {} /\ ~wsCreated /\ stages = <<>>

\* C7 (as claimed): a request whose X-Billder-Token differs from the configured
\* token is rejected as unauthorized before any progress event, workspace or
\* stage; with no token configured no request is rejected for its token.
MismatchIsUnauthorized ==
    /\ TokenMismatch =>
          /\ NothingStarted
          /\ pc = "returned" => (status = 401 /\ result = "unauthorized")
    /\ authToken = "" => (status # 401 /\ result # "unauthorized")

\* C7 (amended): such a request is rejected before any progress event,
\* workspace or stage: as unauthorized (401) when its method is POST, as
\* method-not-allowed (405) otherwise, the method being checked first; with no
\* token configured no request is rejected for its token.
MismatchIsRejected ==
    /\ TokenMismatch =>
          /\ NothingStarted
          /\ pc \in {"method", "auth", "returned"}
          /\ pc = "returned" =>
                IF req.method = "POST"
                THEN status = 401 /\ result = "unauthorized"
                ELSE status = 405 /\ result = "bad_method"
    /\ authToken = "" => (status # 401 /\ result # "unauthorized")

\* C7 witness: a POST with a wrong token was answered 401
WrongTokenRejected ==
    /\ pc = "returned"
    /\ TokenMismatch /\ req.method = "POST"
    /\ status = 401

\* the request is one the data model rejects: source reference or target OS
\* missing, or target OS outside {linux, windows}
InvalidBuildRequest ==
    /\ req.body.ok
    /\ \/ req.body.repo = <<>>
       \/ req.body.os = <<>>
       \/ req.body.os \notin SupportedOS

\* C8 (as claimed): for a request with a missing source reference, a missing
\* target OS or a target OS outside {linux, windows} the handler creates no
\* workspace and enters no pipeline stage.
InvalidRequestRejected ==
    InvalidBuildRequest =>
        /\ ~wsCreated
        /\ stages = <<>>
        /\ pc \notin {"clone", "tidy", "build", "stat", "open", "copy"}

HttpRejections == {"bad_method", "unauthorized", "no_flusher"}

\* C9 (as claimed): a bad method, a bad token and an undecodable body are each
\* answered with an HTTP error status and no progress event; status 200 goes
\* only to requests that were accepted.
RejectionsAreHttpErrors ==
    pc = "returned" =>
        /\ result \in HttpRejections \cup {"invalid_json"} =>
              (status \in {400, 401, 405, 500} /\ ProgressOps = {})
        /\ status = 200 => result \notin HttpRejections \cup {"invalid_json"}

\* C9 (amended): a bad method, a bad token and a writer that cannot stream are
\* answered 405, 401 and 500 with no progress event; an undecodable body and a
\* missing or unsupported target OS are reported by an error progress event
\* inside a 200 response, with no workspace created and no stage entered;
\* status 200 goes to exactly the requests that pass the method, token and
\* flusher checks.
RejectionsByStatusOrEvent ==
    pc = "returned" =>
        /\ result = "bad_method" => status = 405
        /\ result = "unauthorized" => status = 401
        /\ result = "no_flusher" => status = 500
        /\ result \in HttpRejections => NothingStarted
        /\ result \in {"invalid_json", "unsupported_os"} =>
              /\ status = 200
              /\ ~wsCreated /\ stages = <<>>
              /\ \A i \in DOMAIN ops : Kind(i) = "progress"
              /\ Connected => ProgressOps # {}
        /\ status = 200 <=> result \notin HttpRejections
        /\ result \in HttpRejections <=>
              (req.method # "POST" \/ TokenMismatch \/ ~flusherOK)

\* C9 witness: an undecodable body was answered inside a 200 stream
InvalidJsonInStream ==
    /\ pc = "returned" /\ result = "invalid_json"
    /\ status = 200
    /\ ProgressOps # {}

\* C10: whenever buildHandler has returned, the workspace it created is gone,
\* whatever the outcome; and the handler does return.
WorkspaceAlwaysReleased ==
    /\ [](pc = "returned" => ~wsExists)
    /\ <>(pc = "returned")

\* C10 witness: the handler created a workspace, lost its peer during the
\* artifact copy, and returned with the workspace removed
ReleasedAfterWriteError ==
    /\ pc = "returned" /\ result = "stream_error"
    /\ wsCreated /\ ~wsExists

-----------------------------------------------------------------------------
(* The hybrid client and a stream without a switch signal *)

\* the client has read a line that starts with the marker (line 84)
SawSwitchLine == cpc \in {"dataLine", "sepLine"} \/ sinkFrom >= 0

\* the client's read loop is over
LoopLeft ==
    /\ cpc \in {"afterLoop", "sink", "done", "exited"}
    /\ outcome \notin {"connection_failed", "server_error"}

\* C11: when the response ends, by a clean end or by a read error, before the
\* client has read a marker line, the client creates no local file, never runs
\* the sink, and ends reporting that no binary was received, whatever lines
\* it read before.
NoSwitchNoFile ==
    (LoopLeft /\ ~SawSwitchLine) =>
        /\ ~fileCreated
        /\ file = <<>>
        /\ cpc \in {"afterLoop", "done"}
        /\ cpc = "done" => outcome = "no_binary"

\* a stream that broke after progress lines and before any marker
EndedWithoutSwitch ==
    /\ cpc = "done" /\ ~SawSwitchLine
    /\ outcome = "no_binary"
    /\ printed > 0
    /\ ~Connected

-----------------------------------------------------------------------------
(* A connection that breaks during the artifact transfer *)

\* offset in `stream` of the last byte of the (first) switch signal
SwitchEnd == OpEnd(CHOOSE j \in SwitchOps : \A k \in SwitchOps : j <= k)

\* the connection broke after the handler wrote the switch signal and before
\* the peer could get all the artifact bytes
BrokeAfterSwitchSent ==
    /\ SwitchOps # {}
    /\ ~Connected
    /\ brokenAt < SwitchEnd + Len(compilerOut)

\* C12 (as claimed): when the connection breaks after the switch signal has
\* been sent and before all artifact bytes have arrived, the client ends
\* reporting an interrupted download: never success, never that no binary was
\* received.
BreakAfterSwitchSentIsInterrupted ==
    (BrokeAfterSwitchSent /\ cpc = "done") => outcome = "interrupted"

\* C12 (amended): when the connection breaks after the client has read the
\* switch signal and created its file, the client ends reporting an
\* interrupted download; success is reported only for a response that ended
\* cleanly and whose bytes past the switch signal are all in the file; once
\* the client holds a file name it never reports that no binary was received.
BreakAfterSwitchReadIsInterrupted ==
    /\ (~Connected /\ fileCreated /\ cpc = "done") => outcome = "interrupted"
    /\ (cpc = "done" /\ outcome = "success") =>
          /\ Connected /\ pc = "returned"
          /\ file = SubSeq(stream, sinkFrom + 1, Len(stream))
    /\ (filename # <<>> /\ cpc \in {"done", "exited"}) => outcome # "no_binary"

\* C12 witness: the connection broke in the middle of the artifact and the
\* client, holding a part of it, reported an interrupted download
PartialDownloadInterrupted ==
    /\ BrokeAfterSwitchSent
    /\ cpc = "done" /\ outcome = "interrupted"
    /\ file # <<>>
    /\ IsPrefix(file, compilerOut) /\ file # compilerOut

-----------------------------------------------------------------------------
(* A peer that disconnects while the request is handled *)

\* C13 (as claimed): once the peer has disconnected while the request is being
\* handled, the handler enters no further pipeline stage and starts no further
\* git or go subprocess, and the workspace is still released when it returns.
NoStageAfterDisconnect ==
    /\ [][~Connected => stages' = stages]_vars
    /\ [](pc = "returned" => ~wsExists)

-----------------------------------------------------------------------------
(* Failure of a pipeline stage *)

\* the failure events the handler issued
FailureCalls == {i \in DOMAIN calls : calls[i] = "failure"}

\* C14: when a stage fails (git clone exits non-zero, the clone is empty, the
\* compile fails) the handler writes exactly one failure progress event, that
\* event is its last write and the last element of the stream, no later stage
\* is entered, no switch signal or artifact byte follows, and the handler
\* returns normally with the workspace released.
StageFailureEndsResponse ==
    /\ FailedInPipeline => FailureCalls # {}
    /\ (stages # <<>> /\ FailureCalls # {}) =>
          /\ Cardinality(FailureCalls) = 1
          /\ calls[Len(calls)] = "failure"
          /\ \A i \in DOMAIN calls : calls[i] \in {"progress", "failure"}
          /\ pc = "returned" /\ status = 200 /\ ~wsExists
          /\ result \in {"clone_failed", "repo_empty", "compile_failed", "open_failed"}
          /\ result \in {"clone_failed", "repo_empty"} => stages = <<"Cloning">>
          /\ result = "compile_failed" => statSize = -1
          /\ Connected =>
                /\ Kind(Len(ops)) = "progress"
                /\ OpBytes(Len(ops))[3] \in FailureTexts
                /\ OpEnd(Len(ops)) = Len(stream)

\* C14 witness: a compile failure reported to a connected peer as the last
\* event after the three step announcements
CompileFailureReported ==
    /\ pc = "returned" /\ result = "compile_failed"
    /\ Connected
    /\ Len(ops) >= 5
    /\ OpBytes(Len(ops)) = EncodeProgress(<<"Error: Compilation failed.">>)

-----------------------------------------------------------------------------
(* Dependency resolution *)

\* C15: a failure of dependency resolution never aborts the build: whatever
\* `go mod tidy` returns, the handler announces and enters Compiling next,
\* writes no failure event for it, keeps the workspace, and the request ends
\* as the clone, the compile and the handover decide.
TidyFailureIgnored ==
    /\ [][(pc = "tidy" /\ pc' # pc) =>
             /\ pc' = "build"
             /\ calls' = Append(calls, "progress")
             /\ result' = "running"
             /\ wsExists' /\ binary' = binary]_vars
    /\ [][(pc = "build" /\ pc' # pc) => stages' = <<"Cloning", "ResolvingDeps", "Compiling">>]_vars
    /\ [](tidyFailed =>
             /\ pc \in {"build", "stat", "open", "copy", "returned"}
             /\ pc = "returned" =>
                   result \in {"compile_failed", "panicked", "open_failed",
                               "succeeded", "stream_error"}
             /\ result = "compile_failed" <=> FailureCalls # {} /\ statSize = -1)

\* C15 witness: dependency resolution failed and the build went on to succeed
SucceededAfterTidyFailure ==
    /\ tidyFailed
    /\ pc = "returned" /\ result = "succeeded"
    /\ stages = <<"Cloning", "ResolvingDeps", "Compiling">>

-----------------------------------------------------------------------------
(* Order of the pipeline stages *)

\* the stages in the order of the code
StageOrder == <<"Cloning", "ResolvingDeps", "Compiling">>

\* the handler position at which each stage is entered
StagePc == <<"clone", "tidy", "build">>

\* the handler has begun the handover: it issued the switch signal or raw bytes
HandoverBegun == \E i \in DOMAIN calls : calls[i] \in {"switch", "raw"}

\* C16: the stages are entered only in the order Cloning, ResolvingDeps,
\* Compiling, each at most once and each by the step that follows the end of
\* the one before; once the handler has ended (succeeded or failed) no stage
\* is entered; the handover begins only after Compiling has succeeded.
StagesInOrder ==
    /\ [](IsPrefix(stages, StageOrder))
    /\ [][stages' # stages =>
             /\ Len(stages') = Len(stages) + 1
             /\ pc = StagePc[Len(stages')]
             /\ pc' \in {"returned"} \cup
                      (IF Len(stages') = 3 THEN {"stat"}
                                           ELSE {StagePc[Len(stages') + 1]})]_vars
    /\ [][pc = "returned" => (pc' = "returned" /\ stages' = stages /\ result' = result)]_vars
    /\ []((HandoverBegun \/ pc \in {"stat", "open", "copy"}) =>
             /\ stages = StageOrder
             /\ FailureCalls = {}
             /\ result # "compile_failed")
    /\ [](HandoverBegun => statSize = Len(compilerOut))

\* C16 witness: the three stages ran in order and the handover followed
HandoverAfterThreeStages ==
    /\ pc = "returned" /\ result = "succeeded"
    /\ ~tidyFailed /\ Connected
    /\ stages = StageOrder
    /\ HandoverBegun

-----------------------------------------------------------------------------
(* The workspace during the artifact transfer *)

\* C17: the workspace, with the compiled binary in it, is removed only when the
\* handler has finished writing the artifact stream (every byte was written,
\* or a write failed): while io.Copy still has bytes to read and write the
\* workspace and the whole binary are on disk, and nothing is written once it
\* is removed.
WorkspaceOutlivesCopy ==
    /\ [](pc \in {"stat", "open", "copy"} => (wsExists /\ binary = compilerOut))
    /\ [][(wsExists /\ ~wsExists') =>
             /\ pc' = "returned"
             /\ pc = "copy" => (copied = Len(binary) \/ ~Connected)]_vars
    /\ [][~wsExists /\ wsCreated => (calls' = calls /\ stream' = stream /\ ~wsExists')]_vars

\* C17 witness: an artifact of several bytes was copied whole and the workspace
\* was removed afterwards
RemovedAfterWholeCopy ==
    /\ pc = "returned" /\ result = "succeeded"
    /\ ~wsExists /\ binary = <<>>
    /\ copied = Len(compilerOut) /\ copied > 1
    /\ RawWritten = compilerOut

-----------------------------------------------------------------------------
(* A compiled binary that cannot be examined or opened *)

\* the compile succeeded and os.Stat or os.Open of the binary failed
BinaryUnusable == pc = "returned" /\ result \in {"panicked", "open_failed"}

\* C18 (as claimed): when the compile has succeeded and the binary cannot be
\* examined or opened, the handler writes no switch signal and no artifact
\* byte, its last write is a failure progress event, the response ends cleanly
\* (the handler returns and the connection is not aborted), and the workspace
\* is released.
UnusableBinaryFailsCleanly ==
    BinaryUnusable =>
        /\ ~HandoverBegun
        /\ FailureCalls # {} /\ calls[Len(calls)] = "failure"
        /\ result # "panicked"
        /\ ~wsExists

-----------------------------------------------------------------------------
(* A switch signal cut short *)

\* no field of the request holds a line terminator
PlainFields ==
    \A f \in {req.body.repo, req.body.os, req.body.arch} : ~HasNL(f)

\* the lines the client consumed before leaving its loop end with a name line
\* closed by its terminator and a blank separator line
SwitchReadWhole ==
    /\ sinkFrom >= 2
    /\ stream[sinkFrom] = NL
    /\ stream[sinkFrom - 1] = NL

\* C20 (as claimed): the client creates its file only after it has read a whole
\* switch signal: the marker line, the name line closed by its terminator and
\* the blank separator line.  When the stream ends or breaks between the marker
\* and the end of the separator, no file is created under a cut or
\* unterminated name and no successful download is reported.  (Stated for
\* requests whose fields hold no line terminator.)
FileOnlyAfterWholeSwitch ==
    (PlainFields /\ fileCreated) =>
        /\ SwitchReadWhole
        /\ filename = OutputBase(payload)

-----------------------------------------------------------------------------
(* Requests handled at the same time *)

\* request i holds a workspace: created and not yet removed
InProgress(i) == hs[i].pc \in {"clone", "build", "copy", "cleanup"}

\* C19: however the steps of two or more requests handled at the same time
\* interleave, each has a workspace of its own that no other request writes,
\* reads or removes: the workspaces in use have different names, each holds
\* only what its own request cloned and built, a step of one request (its
\* return and cleanup included) leaves the workspace of every other request in
\* progress as it is, and each response carries only its own artifact bytes.
WorkspacesIsolated ==
    /\ [](\A i, j \in Requests :
             (i # j /\ InProgress(i) /\ InProgress(j)) => hs[i].dir # hs[j].dir)
    /\ [](\A i \in Requests :
             InProgress(i) =>
                 /\ fs[hs[i].dir] # Absent
                 /\ fs[hs[i].dir].cloned \in {0, i}
                 /\ fs[hs[i].dir].built \in {0, i}
                 /\ hs[i].pc = "copy" => fs[hs[i].dir].built = i)
    /\ [](\A i \in Requests : hs[i].sent \in {<<>>, <<i>>})
    /\ [][\A i \in Requests :
             (InProgress(i) /\ hs'[i] = hs[i]) => fs'[hs[i].dir] = fs[hs[i].dir]]_vars

\* C19 witness: one request has returned, its workspace removed, while another
\* is about to stream the binary it built in its own workspace
OneReturnedOtherStreaming ==
    \E i, j \in Requests :
        /\ i # j
        /\ hs[i].pc = "returned" /\ hs[i].sent = <<i>>
        /\ hs[j].pc = "copy" /\ fs[hs[j].dir].built = j

====
